---- MODULE Spec2Model ----
(***************************************************************************)
(* A model of the scrape-and-ingest pipeline of opcg-card-price:           *)
(*   - DatabaseManager.insert_products (src/db_manager.py): one SQLAlchemy *)
(*     session per call, look-up-or-create of product / rarity / card      *)
(*     rows, insert-if-absent of card_price rows, picture files written    *)
(*     beside the database, one commit at the end;                         *)
(*   - Scraper.parse_product_page (src/scraper.py): the detail harvest of  *)
(*     one product page through a ThreadPoolExecutor.                      *)
(* insert_products is one transaction.  Its loops are unrolled one element *)
(* per step so that the batch is drawn element by element; the tables that *)
(* survive the call (db) change only at the commit, the session's own view *)
(* (sess) changes at every flush.                                          *)
(***************************************************************************)
EXTENDS Integers, Sequences, FiniteSets, TLC

\* ---------------------------------------------------------------- bounds
\* Products and cards handed to insert_products over the whole run.
MaxSteps == 4

\* Card links on one product page.
MaxStubs == 2

\* Largest max_workers a Scraper is built with.
MaxWorkers == 2

\* ---------------------------------------------------------------- inputs
\* Names are sequences of characters, so that the path sanitizer acts on them.
ProductNames == { <<"O", "P">>, <<"O", "?">> }
ProductUrls == { "/sell/a", "/sell/b" }
CardNames == { <<"A", "/">>, <<"A", ":">> }
EmptyBytes == ""

\* The static part of a scraped card: three versions of the same card.
Details ==
  { [rarity |-> "SR", url |-> "/card/1", image |-> EmptyBytes,
     number |-> "OP01-001", feature |-> "f1", color |-> "red"],
    [rarity |-> "SR", url |-> "/card/2", image |-> "jpgA",
     number |-> "OP01-002", feature |-> "f2", color |-> "blue"],
    [rarity |-> "L", url |-> "/card/3", image |-> "jpgB",
     number |-> "OP01-003", feature |-> "f3", color |-> "green"] }

\* The part that changes over time: two harvests of day 1, one of day 2.
Harvests ==
  { [price |-> 100, quantity |-> 3, scraped_at |-> 1],
    [price |-> 250, quantity |-> 0, scraped_at |-> 1],
    [price |-> 100, quantity |-> 3, scraped_at |-> 2] }

\* models.Card as insert_products reads it (card.scraped_at included).
Cards ==
  { [name |-> n, rarity |-> d.rarity, url |-> d.url, image |-> d.image,
     number |-> d.number, price |-> h.price, quantity |-> h.quantity,
     scraped_at |-> h.scraped_at, feature |-> d.feature, color |-> d.color] :
       n \in CardNames, d \in Details, h \in Harvests }

\* models.Product without its cards, which are drawn one per step.
Products == [name : ProductNames, url : ProductUrls]

NoCard == [name |-> <<>>]
NoProduct == [name |-> <<>>, url |-> ""]

\* ---------------------------------------------------------------- state
VARIABLES
  db,         \* the committed tables: product, rarity, card, card_price
  sess,       \* the open session's view of the tables (db when no call runs)
  files,      \* picture files: set of <<directory, file name, bytes>>
  dirs,       \* picture directories created under picture_dir
  pc,         \* "idle" | "loop": whether an insert_products call is running
  product,    \* loop variable of line 110
  prod_obj,   \* id of the product row of the current product
  card,       \* loop variable of line 125
  steps,      \* products and cards consumed so far, over all calls
  outcome,    \* how the last call ended: "none" | "ok" | the exception raised
  ingested,   \* history: [product, url, card, date] of earlier committed calls
  batch       \* history: the same for the running (or the last) call

dbvars == <<db, sess, files, dirs, pc, product, prod_obj, card, steps,
            outcome, ingested, batch>>

VARIABLES
  driver,      \* TRUE when self.driver is not None (Selenium in use)
  max_workers, \* self.max_workers
  stubs,       \* the card links of the product page, before the filter
  entries,     \* the (card_url, card_name, rarity) tuples of line 188
  task,        \* per entry: "queued" | "running" | "loaded" | "done"
  result,      \* per entry: what its future holds once done
  detail,      \* history, per entry: the detail page fetch_page returned and
               \* the url it had been loaded from
  driverUrl,   \* the url the shared Selenium driver last loaded
  consumed,    \* the futures as_completed has yielded so far
  cards,       \* the list parse_product_page returns
  idx,         \* progress counter of line 223
  hpc          \* "idle" | "collect" | "drain" | "returned" | "raised"

hvars == <<driver, max_workers, stubs, entries, task, result, detail, driverUrl,
           consumed, cards, idx, hpc>>

VARIABLES
  jpc,         \* position of job(): "idle" | "start" | "walk" | "harvest" |
               \* "done" | "aborted"
  buttons,     \* the product buttons Scraper.parse collected (line 245)
  bidx,        \* buttons the loop of line 255 has finished
  data,        \* the list `results` of Scraper.parse
  jexc,        \* the exception that left job(), "" when none
  printed,     \* what job() printed at the end (lines 47 and 49)
  ret,         \* what job() returned
  pageFetches, \* history: fetch_page calls made by Scraper.parse
  inserts,     \* history: insert_products calls made by job()
  before,      \* history: the tables as job() found them
  walked       \* history, per product page harvested: its card links and how
               \* many detail fetches failed and how many pages held a number

jvars == <<jpc, buttons, bidx, data, jexc, printed, ret, pageFetches, inserts,
           before, walked>>

VARIABLES
  html,        \* the markup handed to parse_card_page
  answer,      \* what parse_card_page answered
  kwargs       \* the values parse_card_page had computed at line 160

pvars == <<html, answer, kwargs>>

VARIABLES
  df           \* the DataFrame fetch_dataframe handed to its caller, if any

rvars == <<df>>

VARIABLES
  doc,         \* the elements of the html handed to parse_headers
  headers      \* what parse_headers returned

tvars == <<doc, headers>>

\* Two insert_products calls running at once on one database file.
VARIABLES
  txn,        \* per caller: where the call is, its input, what its session holds
  lock        \* the caller holding the write lock of the database, or 0

cvars == <<txn, lock>>

vars == <<dbvars, hvars, jvars, pvars, rvars, tvars, cvars>>

EmptyTables == [product |-> {}, rarity |-> {}, card |-> {}, card_price |-> {}]

\* ---------------------------------------------------------------- tables
\* Integer primary keys: no row is ever deleted, so the next id is count + 1.
NextId(rows) == Cardinality(rows) + 1

\* filter_by(name=product.name, url=product.url)
ProductLookupKey(r) == <<r.name, r.url>>

\* Column(String(255), nullable=False, unique=True) on product.name
ProductUniqueKey(r) == <<r.name>>

\* UniqueConstraint("product_id", "name", name="uix_product_card_name")
CardKey(r) == <<r.product_id, r.name>>

\* UniqueConstraint("card_id", "scraped_at", name="uix_card_price_date")
PriceKey(r) == <<r.card_id, r.scraped_at>>

\* re.sub(r"[\\/:*?\"<>|]", "_", name)
UnsafeChars == { "\\", "/", ":", "*", "?", "\"", "<", ">", "|" }

Sanitize(name) ==
  [i \in 1..Len(name) |-> IF name[i] \in UnsafeChars THEN "_" ELSE name[i]]

FileExists(fs, dir, fname) == \E f \in fs : f[1] = dir /\ f[2] = fname

\* Mutant: the flush commits.
AfterFlushCommits(committed, working) == working

\* session.flush() leaves the committed tables as they were.
AfterFlush(committed, working) == committed

\* Look-up-or-create of the product row (lines 111-119).
LookupOrCreateProduct(s, p) ==
  LET cand == [id |-> NextId(s.product), name |-> p.name, url |-> p.url]
      found == { r \in s.product : ProductLookupKey(r) = ProductLookupKey(cand) }
  IN IF found # {}
       THEN [err |-> "none", s |-> s, id |-> (CHOOSE r \in found : TRUE).id]
       ELSE IF \E r \in s.product : ProductUniqueKey(r) = ProductUniqueKey(cand)
              THEN [err |-> "IntegrityError", s |-> s, id |-> 0]
              ELSE [err |-> "none",
                    s |-> [s EXCEPT !.product = @ \cup {cand}],
                    id |-> cand.id]

\* Mutant: a new rarity gets an id but its row is never added.
RarityNeverAdded(s, name) ==
  LET found == { r \in s.rarity : r.name = name }
  IN IF found # {}
       THEN [s |-> s, id |-> (CHOOSE r \in found : TRUE).id]
       ELSE [s |-> s, id |-> NextId(s.rarity)]

\* Mutant: the rarity row is created without looking it up first.
CreateRarityNoLookup(s, name) ==
  LET cand == [id |-> NextId(s.rarity), name |-> name]
  IN [s |-> [s EXCEPT !.rarity = @ \cup {cand}], id |-> cand.id]

\* Look-up-or-create of the rarity row (lines 132-140).
LookupOrCreateRarity(s, name) ==
  LET found == { r \in s.rarity : r.name = name }
      cand == [id |-> NextId(s.rarity), name |-> name]
  IN IF found # {}
       THEN [s |-> s, id |-> (CHOOSE r \in found : TRUE).id]
       ELSE [s |-> [s EXCEPT !.rarity = @ \cup {cand}], id |-> cand.id]

\* Mutant: the picture of a new card replaces the file that is there.
WritePictureOverwrite(fs, dir, c) ==
  IF c.image # EmptyBytes
    THEN { f \in fs : ~(f[1] = dir /\ f[2] = Sanitize(c.name)) }
           \cup { <<dir, Sanitize(c.name), c.image>> }
    ELSE fs

\* The picture write of a new card (lines 141-145).
WritePicture(fs, dir, c) ==
  IF c.image # EmptyBytes /\ ~FileExists(fs, dir, Sanitize(c.name))
    THEN fs \cup { <<dir, Sanitize(c.name), c.image>> }
    ELSE fs

\* Mutant: the card is created without looking it up first.
CreateCardNoLookup(s, fs, pid, dir, c) ==
  LET rar == LookupOrCreateRarity(s, c.rarity)
      row == [id |-> NextId(s.card), product_id |-> pid, name |-> c.name,
              rarity_id |-> rar.id, url |-> c.url, number |-> c.number,
              feature |-> c.feature, color |-> c.color]
  IN IF \E r \in s.card : CardKey(r) = CardKey(row)
       THEN [err |-> "IntegrityError", s |-> s,
             fs |-> WritePicture(fs, dir, c), id |-> 0]
       ELSE [err |-> "none",
             s |-> [rar.s EXCEPT !.card = @ \cup {row}],
             fs |-> WritePicture(fs, dir, c),
             id |-> row.id]

\* Mutant: a card found again has its static fields refreshed.
LookupOrUpdateCard(s, fs, pid, dir, c) ==
  LET rar == LookupOrCreateRarity(s, c.rarity)
      row == [id |-> NextId(s.card), product_id |-> pid, name |-> c.name,
              rarity_id |-> rar.id, url |-> c.url, number |-> c.number,
              feature |-> c.feature, color |-> c.color]
      found == { r \in s.card : r.product_id = pid /\ r.name = c.name }
      old == CHOOSE r \in found : TRUE
  IN IF found # {}
       THEN [err |-> "none",
             s |-> [rar.s EXCEPT !.card = (@ \ {old}) \cup {[row EXCEPT !.id = old.id]}],
             fs |-> fs, id |-> old.id]
       ELSE [err |-> "none",
             s |-> [rar.s EXCEPT !.card = @ \cup {row}],
             fs |-> WritePicture(fs, dir, c),
             id |-> row.id]

\* Mutant: the picture is written for a card found again, too.
LookupCardWritePicture(s, fs, pid, dir, c) ==
  LET rar == LookupOrCreateRarity(s, c.rarity)
      row == [id |-> NextId(s.card), product_id |-> pid, name |-> c.name,
              rarity_id |-> rar.id, url |-> c.url, number |-> c.number,
              feature |-> c.feature, color |-> c.color]
      found == { r \in s.card : r.product_id = pid /\ r.name = c.name }
  IN IF found # {}
       THEN [err |-> "none", s |-> s, fs |-> WritePicture(fs, dir, c),
             id |-> (CHOOSE r \in found : TRUE).id]
       ELSE [err |-> "none",
             s |-> [rar.s EXCEPT !.card = @ \cup {row}],
             fs |-> WritePicture(fs, dir, c),
             id |-> row.id]

\* Look-up-or-create of the card row (lines 126-157); the flush of line 157
\* is where uix_product_card_name would raise.
LookupOrCreateCard(s, fs, pid, dir, c) ==
  LET rar == LookupOrCreateRarity(s, c.rarity)
      row == [id |-> NextId(s.card), product_id |-> pid, name |-> c.name,
              rarity_id |-> rar.id, url |-> c.url, number |-> c.number,
              feature |-> c.feature, color |-> c.color]
      found == { r \in s.card : r.product_id = pid /\ r.name = c.name }
  IN IF found # {}
       THEN [err |-> "none", s |-> s, fs |-> fs,
             id |-> (CHOOSE r \in found : TRUE).id]
       ELSE IF \E r \in s.card : CardKey(r) = CardKey(row)
              THEN [err |-> "IntegrityError", s |-> s,
                    fs |-> WritePicture(fs, dir, c), id |-> 0]
              ELSE [err |-> "none",
                    s |-> [rar.s EXCEPT !.card = @ \cup {row}],
                    fs |-> WritePicture(fs, dir, c),
                    id |-> row.id]

\* Mutant: the existing price is looked up by card alone, whatever its date.
InsertPriceOncePerCard(s, cid, c) ==
  LET row == [id |-> NextId(s.card_price), card_id |-> cid, price |-> c.price,
              quantity |-> c.quantity, scraped_at |-> c.scraped_at]
      existing_price == { r \in s.card_price : r.card_id = cid }
  IN IF existing_price # {}
       THEN [err |-> "none", s |-> s]
       ELSE [err |-> "none", s |-> [s EXCEPT !.card_price = @ \cup {row}]]

\* Mutant: every harvested price is appended, with no look-up and no key.
InsertPriceAppend(s, cid, c) ==
  LET row == [id |-> NextId(s.card_price), card_id |-> cid, price |-> c.price,
              quantity |-> c.quantity, scraped_at |-> c.scraped_at]
  IN [err |-> "none", s |-> [s EXCEPT !.card_price = @ \cup {row}]]

\* Mutant: an existing price of the same date is overwritten (an upsert).
InsertPriceUpsert(s, cid, c) ==
  LET row == [id |-> NextId(s.card_price), card_id |-> cid, price |-> c.price,
              quantity |-> c.quantity, scraped_at |-> c.scraped_at]
      existing_price ==
        { r \in s.card_price : r.card_id = cid /\ r.scraped_at = c.scraped_at }
      old == CHOOSE r \in existing_price : TRUE
  IN IF existing_price # {}
       THEN [err |-> "none",
             s |-> [s EXCEPT !.card_price =
                      (@ \ {old}) \cup {[row EXCEPT !.id = old.id]}]]
       ELSE [err |-> "none", s |-> [s EXCEPT !.card_price = @ \cup {row}]]

\* Insert-if-absent of the price row (lines 159-174); the row is flushed by
\* the next query or by the commit, where uix_card_price_date would raise.
InsertPrice(s, cid, c) ==
  LET row == [id |-> NextId(s.card_price), card_id |-> cid, price |-> c.price,
              quantity |-> c.quantity, scraped_at |-> c.scraped_at]
      existing_price ==
        { r \in s.card_price : r.card_id = cid /\ r.scraped_at = c.scraped_at }
  IN IF existing_price # {}
       THEN [err |-> "none", s |-> s]
       ELSE IF \E r \in s.card_price : PriceKey(r) = PriceKey(row)
              THEN [err |-> "IntegrityError", s |-> s]
              ELSE [err |-> "none", s |-> [s EXCEPT !.card_price = @ \cup {row}]]

HistoryKey(p, c) ==
  [product |-> p.name, url |-> p.url, card |-> c.name, date |-> c.scraped_at]

\* ---------------------------------------------------------------- actions
InitDB ==
  /\ db = EmptyTables
  /\ sess = EmptyTables
  /\ files = {}
  /\ dirs = {}
  /\ pc = "idle"
  /\ product = NoProduct
  /\ prod_obj = 0
  /\ card = NoCard
  /\ steps = 0
  /\ outcome = "none"
  /\ ingested = {}
  /\ batch = {}

\* What earlier calls committed, as the next call finds it.
Committed == IF outcome = "ok" THEN ingested \cup batch ELSE ingested

\* The exception leaves the with block: the session closes and rolls back.
Rollback(err) ==
  /\ pc' = "idle"
  /\ sess' = db
  /\ db' = db
  /\ outcome' = err

\* insert_products([]): "if not products: return" (lines 106-107).
InsertEmpty ==
  /\ pc = "idle"
  /\ outcome' = "ok"
  /\ ingested' = Committed
  /\ batch' = {}
  /\ product' = NoProduct
  /\ card' = NoCard
  /\ prod_obj' = 0
  /\ UNCHANGED <<db, sess, files, dirs, pc, steps>>
  /\ UNCHANGED <<hvars, jvars, pvars, rvars, tvars, cvars>>

\* The product step of lines 110-123 on the tables s.
ProductStep(s, p) ==
  LET r == LookupOrCreateProduct(s, p) IN
    /\ IF r.err = "none"
         THEN /\ pc' = "loop"
              /\ sess' = r.s
              /\ db' = AfterFlush(db, r.s)
              /\ prod_obj' = r.id
              /\ dirs' = dirs \cup {Sanitize(p.name)}
              /\ outcome' = "none"
         ELSE /\ Rollback(r.err)
              /\ prod_obj' = 0
              /\ dirs' = dirs
    /\ product' = p
    /\ card' = NoCard
    /\ steps' = steps + 1
    /\ files' = files

\* The first product of a new call: the session opens on the committed tables.
BeginCall(p) ==
  /\ pc = "idle"
  /\ steps < MaxSteps
  /\ ProductStep(db, p)
  /\ ingested' = Committed
  /\ batch' = {}
  /\ UNCHANGED <<hvars, jvars, pvars, rvars, tvars, cvars>>

\* The next product of the running call (lines 110-123).
NextProduct(p) ==
  /\ pc = "loop"
  /\ steps < MaxSteps
  /\ ProductStep(sess, p)
  /\ UNCHANGED <<ingested, batch>>
  /\ UNCHANGED <<hvars, jvars, pvars, rvars, tvars, cvars>>

\* prod_dir.mkdir raises OSError after the product row was flushed (line 123).
MkdirFails ==
  /\ pc = "loop"
  /\ card = NoCard
  /\ Rollback("OSError")
  /\ UNCHANGED <<files, dirs, product, prod_obj, card, steps, ingested, batch>>
  /\ UNCHANGED <<hvars, jvars, pvars, rvars, tvars, cvars>>

\* One card of the current product (lines 125-174).
NextCard(c) ==
  /\ pc = "loop"
  /\ steps < MaxSteps
  /\ LET r == LookupOrCreateCard(sess, files, prod_obj, Sanitize(product.name), c)
         q == InsertPrice(r.s, r.id, c)
     IN /\ files' = r.fs
        /\ IF r.err = "none" /\ q.err = "none"
             THEN /\ sess' = q.s
                  /\ db' = AfterFlush(db, q.s)
                  /\ batch' = batch \cup {HistoryKey(product, c)}
                  /\ UNCHANGED <<pc, outcome>>
             ELSE /\ Rollback("IntegrityError")
                  /\ batch' = batch
  /\ card' = c
  /\ steps' = steps + 1
  /\ UNCHANGED <<dirs, product, prod_obj, ingested>>
  /\ UNCHANGED <<hvars, jvars, pvars, rvars, tvars, cvars>>

\* file_path.write_bytes raises OSError for a new card (line 145): the file is
\* not there (it could not be opened) or is left empty (the write failed).
PictureWriteFails(c) ==
  /\ pc = "loop"
  /\ steps < MaxSteps
  /\ { r \in sess.card : r.product_id = prod_obj /\ r.name = c.name } = {}
  /\ c.image # EmptyBytes
  /\ ~FileExists(files, Sanitize(product.name), Sanitize(c.name))
  /\ \E left \in SUBSET { <<Sanitize(product.name), Sanitize(c.name), EmptyBytes>> } :
       files' = files \cup left
  /\ Rollback("OSError")
  /\ card' = c
  /\ steps' = steps + 1
  /\ UNCHANGED <<dirs, product, prod_obj, ingested, batch>>
  /\ UNCHANGED <<hvars, jvars, pvars, rvars, tvars, cvars>>

\* session.commit() (line 175).
Commit ==
  /\ pc = "loop"
  /\ db' = sess
  /\ pc' = "idle"
  /\ outcome' = "ok"
  /\ UNCHANGED <<sess, files, dirs, product, prod_obj, card, steps, ingested, batch>>
  /\ UNCHANGED <<hvars, jvars, pvars, rvars, tvars, cvars>>

\* session.commit() raises (database locked, disk full): nothing is committed.
CommitFails ==
  /\ pc = "loop"
  /\ Rollback("OperationalError")
  /\ UNCHANGED <<files, dirs, product, prod_obj, card, steps, ingested, batch>>
  /\ UNCHANGED <<hvars, jvars, pvars, rvars, tvars, cvars>>

NextDB ==
  \/ InsertEmpty
  \/ \E p \in Products : BeginCall(p)
  \/ \E p \in Products : NextProduct(p)
  \/ \E c \in Cards : NextCard(c)
  \/ \E c \in Cards : PictureWriteFails(c)
  \/ MkdirFails
  \/ Commit
  \/ CommitFails

\* ---------------------------------------------------------------- harvest
\* The card links of a product page: two detail urls under four rarity labels.
CardLinks ==
  { [url |-> "/card/1", name |-> <<"L">>], [url |-> "/card/2", name |-> <<"Z">>] }
RarityLabels == { <<"S", "R">>, <<"C">>, <<"U", "C">>, <<"U">>, <<"u", "c">> }
Stubs ==
  { [url |-> l.url, name |-> l.name, rarity |-> r] : l \in CardLinks, r \in RarityLabels }

RECURSIVE SeqsUpTo(_, _)
SeqsUpTo(S, n) ==
  IF n = 0 THEN { <<>> }
  ELSE LET shorter == SeqsUpTo(S, n - 1)
       IN shorter \cup { Append(q, x) : q \in { r \in shorter : Len(r) = n - 1 }, x \in S }

\* str.upper() on the letters that occur.
Upper(ch) ==
  CASE ch = "c" -> "C" [] ch = "u" -> "U" [] ch = "s" -> "S" [] ch = "r" -> "R"
    [] OTHER -> ch

\* rarity.strip().upper() in {"C", "U", "UC"} (line 193).
Whitespace == { " " }

RECURSIVE Strip(_)
Strip(w) ==
  IF w = <<>> THEN w
  ELSE IF Head(w) \in Whitespace THEN Strip(Tail(w))
  ELSE IF w[Len(w)] \in Whitespace THEN Strip(SubSeq(w, 1, Len(w) - 1))
  ELSE w

SkippedRarities == { <<"C">>, <<"U">>, <<"U", "C">> }

\* Mutant: every rarity is skipped.
SkipEverything(rarity) == TRUE

\* Mutant: no rarity is skipped.
SkipNothing(rarity) == FALSE

Skipped(rarity) ==
  LET stripped == Strip(rarity)
  IN [i \in 1..Len(stripped) |-> Upper(stripped[i])] \in SkippedRarities

\* The entries collected from the page (lines 188-203).
RECURSIVE Entries(_)
Entries(page) ==
  IF page = <<>> THEN <<>>
  ELSE IF Skipped(Head(page).rarity) THEN Entries(Tail(page))
  ELSE <<Head(page)>> \o Entries(Tail(page))

\* The fields of the dataclass models.Card.
CardFields ==
  { "name", "rarity", "url", "image", "number", "price", "quantity",
    "feature", "color" }

\* The keyword arguments parse_card_page passes to Card (lines 160-171).
CardKwargs ==
  { "name", "rarity", "url", "image", "number", "price", "quantity",
    "scraped_at", "feature", "color" }

\* ---- the markup of a detail page, as parse_card_page looks it up.  Every
\* field is the list of elements the look-up finds (empty when it finds none).
NoImageUrl == <<"https://img.yuyu-tei.jp/card_image/noimage_front", ".jpg">>
ImageSrcs == { <<"https://img.yuyu-tei.jp/card_image/op01/1", ".jpg">>,
               <<"https://img.yuyu-tei.jp/card_image/op01/1", ".png">>,
               NoImageUrl }
PriceTexts == { <<"¥", "1", ",", "2", "0", "0">>, <<"9", "0">>, <<"-">> }
QuantityTokens == { <<"3">>, <<"×">>, <<"-", "5">> }

\* label text: whether "在庫\s*:\s*(\S+)\s*点" matches, and what group 1 holds.
LabelTexts ==
  { [stock |-> FALSE, qty |-> <<>>] } \cup [stock : {TRUE}, qty : QuantityTokens]

Optional(S) == { <<>> } \cup { <<x>> : x \in S }

DetailPages ==
  [ container : BOOLEAN,                  \* section#product-detail (line 100)
    img : Optional(ImageSrcs),            \* .col-lg-5 img.vimg[src] (104-108)
    info : BOOLEAN,                       \* .col-lg-7 (line 121)
    tds : { <<>>, <<"f1">>, <<"f1", "red">> },  \* td.text-dark of the first tr
    flex : 0..2,                          \* number of .d-flex elements (133)
    number : Optional({"OP01-001"}),      \* .border of the first .d-flex
    price : Optional(PriceTexts),         \* h4.fw-bold of the second .d-flex
    label : Optional(LabelTexts) ]        \* label.form-check-label of the second

\* What the image GET of lines 115-117 can answer.
ImageResponses == { "jpgA", "RequestException" }

\* date.today() of the harvest.
Today == 1

DigitChars == <<"0", "1", "2", "3", "4", "5", "6", "7", "8", "9">>
IsDigit(ch) == \E d \in 1..10 : DigitChars[d] = ch
DigitValue(ch) == (CHOOSE d \in 1..10 : DigitChars[d] = ch) - 1

\* re.sub(r"[^0-9]", "", text)
RECURSIVE KeepDigits(_)
KeepDigits(text) ==
  IF text = <<>> THEN <<>>
  ELSE IF IsDigit(Head(text)) THEN <<Head(text)>> \o KeepDigits(Tail(text))
  ELSE KeepDigits(Tail(text))

\* int() of a string of decimal digits.
RECURSIVE DecimalValue(_)
DecimalValue(ds) ==
  IF ds = <<>> THEN 0
  ELSE 10 * DecimalValue(SubSeq(ds, 1, Len(ds) - 1)) + DigitValue(ds[Len(ds)])

\* Lines 143-146: int("") raises ValueError, which gives 0.
ParsePrice(text) ==
  LET ds == KeepDigits(text) IN IF ds = <<>> THEN 0 ELSE DecimalValue(ds)

\* Lines 153-157: int(qty_str) takes an optional sign; ValueError gives 0.
ParseQuantity(tok) ==
  LET signed == tok # <<>> /\ Head(tok) \in {"+", "-"}
      body == IF signed THEN Tail(tok) ELSE tok
  IN IF body = <<>> \/ \E k \in 1..Len(body) : ~IsDigit(body[k]) THEN 0
     ELSE IF signed /\ Head(tok) = "-" THEN 0 - DecimalValue(body)
     ELSE DecimalValue(body)

\* Lines 104-119: the picture bytes.
ParseImage(page, resp) ==
  IF page.container /\ page.img # <<>> /\ page.img[1][2] = ".jpg"
       /\ page.img[1] # NoImageUrl /\ resp # "RequestException"
    THEN resp ELSE EmptyBytes

\* Lines 94-157: the values handed to Card(...).
CardValues(page, resp, today) ==
  LET info == page.container /\ page.info
      second == info /\ page.flex >= 2
  IN [name |-> <<>>, rarity |-> <<>>, url |-> "",
      image |-> ParseImage(page, resp),
      number |-> IF info /\ page.flex >= 1 /\ page.number # <<>>
                   THEN page.number[1] ELSE "",
      price |-> IF second /\ page.price # <<>> THEN ParsePrice(page.price[1]) ELSE 0,
      quantity |-> IF second /\ page.label # <<>> /\ page.label[1].stock
                     THEN ParseQuantity(page.label[1].qty) ELSE 0,
      scraped_at |-> today,
      feature |-> IF info /\ Len(page.tds) >= 1 THEN page.tds[1] ELSE "",
      color |-> IF info /\ Len(page.tds) >= 2 THEN page.tds[2] ELSE ""]

NoResult == [kind |-> "pending"]

\* parse_card_page (lines 90-171): the dataclass constructor rejects a keyword
\* that is not a field of Card.
ParseCardPage(page, resp, today) ==
  IF CardKwargs \subseteq CardFields
    THEN [kind |-> "card", card |-> CardValues(page, resp, today)]
    ELSE [kind |-> "raise", exc |-> "TypeError"]

\* The detail pages the harvest meets: a full page and one without number.
HarvestPages ==
  { [container |-> TRUE, img |-> <<>>, info |-> TRUE, tds |-> <<"f1", "red">>,
     flex |-> 2, number |-> n, price |-> << <<"9", "0">> >>,
     label |-> << [stock |-> TRUE, qty |-> <<"3">>] >>] :
       n \in Optional({"OP01-001"}) }

\* The rest of worker (lines 211-217) once fetch_page has returned the page
\* loaded from `from`.
Worker(entry, page, from) ==
  LET parsed == ParseCardPage(page, "RequestException", Today)
  IN IF parsed.kind = "raise" THEN parsed
     ELSE IF parsed.card.number = "" THEN [kind |-> "None", fetched |-> TRUE]
     ELSE [kind |-> "card", from |-> from,
           card |-> [parsed.card EXCEPT !.rarity = entry.rarity,
                                        !.url = entry.url,
                                        !.name = entry.name]]

Running == { i \in 1..Len(entries) : task[i] \in {"running", "loaded"} }
Queued == { i \in 1..Len(entries) : task[i] = "queued" }

InitHarvest ==
  /\ driver \in BOOLEAN
  /\ max_workers \in 1..MaxWorkers
  /\ stubs \in SeqsUpTo(Stubs, MaxStubs)
  /\ entries = Entries(stubs)
  /\ task = [i \in 1..Len(entries) |-> "queued"]
  /\ result = [i \in 1..Len(entries) |-> NoResult]
  /\ detail = [i \in 1..Len(entries) |-> <<>>]
  /\ driverUrl = ""
  /\ consumed = {}
  /\ cards = <<>>
  /\ idx = 0
  /\ hpc = "collect"

\* Mutant: the pool starts a thread for every task.
UnboundedPool == TRUE

\* ThreadPoolExecutor(max_workers=self.max_workers) (line 221): a thread of
\* the pool is free.
IdleThread == Cardinality(Running) < max_workers

\* A pool thread takes the oldest queued task (executor.submit, line 222).
Start(i) ==
  /\ hpc \in {"collect", "drain"}
  /\ i \in Queued
  /\ \A j \in Queued : i <= j
  /\ IdleThread
  /\ task' = [task EXCEPT ![i] = "running"]
  /\ UNCHANGED <<driver, max_workers, stubs, entries, result, detail, driverUrl, consumed,
                 cards, idx, hpc>>
  /\ UNCHANGED <<dbvars, jvars, pvars, rvars, tvars, cvars>>

\* fetch_page without Selenium (lines 86-88): the page, or RequestException,
\* which worker turns into None (lines 218-219).
RequestsGet(i) ==
  /\ ~driver
  /\ i \in 1..Len(entries)
  /\ task[i] = "running"
  /\ task' = [task EXCEPT ![i] = "done"]
  /\ \/ \E page \in HarvestPages :
          /\ result' = [result EXCEPT ![i] = Worker(entries[i], page, entries[i].url)]
          /\ detail' = [detail EXCEPT ![i] = <<page, entries[i].url>>]
     \/ /\ result' = [result EXCEPT ![i] = [kind |-> "None", fetched |-> FALSE]]
        /\ detail' = detail
  /\ UNCHANGED <<driver, max_workers, stubs, entries, driverUrl, consumed, cards, idx, hpc>>
  /\ UNCHANGED <<dbvars, jvars, pvars, rvars, tvars, cvars>>

\* fetch_page with Selenium, first half (line 84): the shared driver loads the
\* url, or raises WebDriverException, which worker does not catch.
DriverGet(i) ==
  /\ driver
  /\ i \in 1..Len(entries)
  /\ task[i] = "running"
  /\ \/ /\ driverUrl' = entries[i].url
        /\ task' = [task EXCEPT ![i] = "loaded"]
        /\ result' = result
     \/ /\ driverUrl' = driverUrl
        /\ task' = [task EXCEPT ![i] = "done"]
        /\ result' = [result EXCEPT ![i] =
                        [kind |-> "raise", exc |-> "WebDriverException"]]
  /\ UNCHANGED <<driver, max_workers, stubs, entries, detail, consumed, cards, idx, hpc>>
  /\ UNCHANGED <<dbvars, jvars, pvars, rvars, tvars, cvars>>

\* fetch_page with Selenium, second half (line 85): page_source of whatever
\* the shared driver holds now, then the rest of worker.
PageSource(i) ==
  /\ driver
  /\ i \in 1..Len(entries)
  /\ task[i] = "loaded"
  /\ task' = [task EXCEPT ![i] = "done"]
  /\ \E page \in HarvestPages :
       /\ result' = [result EXCEPT ![i] = Worker(entries[i], page, driverUrl)]
       /\ detail' = [detail EXCEPT ![i] = <<page, driverUrl>>]
  /\ UNCHANGED <<driver, max_workers, stubs, entries, driverUrl, consumed, cards, idx, hpc>>
  /\ UNCHANGED <<dbvars, jvars, pvars, rvars, tvars, cvars>>

\* One turn of the as_completed loop (lines 223-230): f.result() returns a
\* card or None, or raises what the worker raised, which leaves the loop.
Collect(i) ==
  /\ hpc = "collect"
  /\ i \in 1..Len(entries)
  /\ task[i] = "done"
  /\ i \notin consumed
  /\ consumed' = consumed \cup {i}
  /\ IF result[i].kind = "raise"
       THEN /\ hpc' = "drain"
            /\ UNCHANGED <<cards, idx>>
       ELSE /\ cards' = IF result[i].kind = "card" THEN Append(cards, result[i].card) ELSE cards
            /\ idx' = idx + 1
            /\ hpc' = hpc
  /\ UNCHANGED <<driver, max_workers, stubs, entries, task, result, detail, driverUrl>>
  /\ UNCHANGED <<dbvars, jvars, pvars, rvars, tvars, cvars>>

\* Mutant: the loop over the futures ends with the first result.
FirstConsumed == consumed # {} \/ entries = <<>>

\* as_completed(futures) is exhausted (line 223): every future has been
\* yielded, and a future is yielded only when its task is done.
AllConsumed == consumed = 1..Len(entries)

\* The with block ends (line 221): shutdown(wait=True) returns once every
\* submitted task has run; then the list is returned (line 232).
Return ==
  /\ hpc = "collect"
  /\ AllConsumed
  /\ hpc' = "returned"
  /\ UNCHANGED <<driver, max_workers, stubs, entries, task, result, detail, driverUrl, consumed,
                 cards, idx>>
  /\ UNCHANGED <<dbvars, jvars, pvars, rvars, tvars, cvars>>

\* The with block is left by an exception: shutdown(wait=True) waits for the
\* tasks still queued or running, then the exception leaves parse_product_page.
Raise ==
  /\ hpc = "drain"
  /\ \A i \in 1..Len(entries) : task[i] = "done"
  /\ hpc' = "raised"
  /\ UNCHANGED <<driver, max_workers, stubs, entries, task, result, detail, driverUrl, consumed,
                 cards, idx>>
  /\ UNCHANGED <<dbvars, jvars, pvars, rvars, tvars, cvars>>

NextHarvest ==
  \/ \E i \in 1..MaxStubs : Start(i)
  \/ \E i \in 1..MaxStubs : RequestsGet(i)
  \/ \E i \in 1..MaxStubs : DriverGet(i)
  \/ \E i \in 1..MaxStubs : PageSource(i)
  \/ \E i \in 1..MaxStubs : Collect(i)
  \/ Return
  \/ Raise

\* ---------------------------------------------------------------- job
\* Product buttons on the root page.
MaxButtons == 2

\* What Scraper.parse reads off a button: its text and the url of its onclick.
RootPages == SeqsUpTo(Products, MaxButtons)

\* The product pages a walk meets: no card list, one rare card, and a page
\* with one common and two rare cards.
JobPages ==
  { <<>>,
    << [url |-> "/card/1", name |-> <<"L">>, rarity |-> <<"S", "R">>] >>,
    << [url |-> "/card/3", name |-> <<"N">>, rarity |-> <<"C">>],
       [url |-> "/card/1", name |-> <<"L">>, rarity |-> <<"S", "R">>],
       [url |-> "/card/2", name |-> <<"Z">>, rarity |-> <<"S", "R">>] >> }

\* The card loop of insert_products (lines 125-174) over the list cs.
RECURSIVE InsertCards(_, _, _, _, _)
InsertCards(s, fs, pid, dir, cs) ==
  IF cs = <<>> THEN [err |-> "none", s |-> s, fs |-> fs]
  ELSE LET r == LookupOrCreateCard(s, fs, pid, dir, Head(cs))
           q == InsertPrice(r.s, r.id, Head(cs))
       IN IF r.err # "none" THEN [err |-> r.err, s |-> s, fs |-> r.fs]
          ELSE IF q.err # "none" THEN [err |-> q.err, s |-> s, fs |-> r.fs]
          ELSE InsertCards(q.s, r.fs, pid, dir, Tail(cs))

\* insert_products (lines 108-174) over the list ps, up to the commit: the
\* session's tables, the picture files and the picture directories.
RECURSIVE InsertProducts(_, _, _, _)
InsertProducts(s, fs, ds, ps) ==
  IF ps = <<>> THEN [err |-> "none", s |-> s, fs |-> fs, ds |-> ds]
  ELSE LET r == LookupOrCreateProduct(s, Head(ps))
           dir == Sanitize(Head(ps).name)
           c == InsertCards(r.s, fs, r.id, dir, Head(ps).cards)
       IN IF r.err # "none" THEN [err |-> r.err, s |-> s, fs |-> fs, ds |-> ds]
          ELSE IF c.err # "none"
                 THEN [err |-> c.err, s |-> s, fs |-> c.fs, ds |-> ds \cup {dir}]
          ELSE InsertProducts(c.s, c.fs, ds \cup {dir}, Tail(ps))

\* The store an earlier run left: one product without cards, or nothing.
EarlierStores ==
  { EmptyTables,
    InsertProducts(EmptyTables, {}, {},
                   << [name |-> <<"O", "P">>, url |-> "/sell/a", cards |-> <<>>] >>).s }

\* No job() call is running.
NoJob ==
  /\ jpc = "idle"
  /\ buttons = <<>>
  /\ bidx = 0
  /\ data = <<>>
  /\ jexc = ""
  /\ printed = ""
  /\ ret = "pending"
  /\ pageFetches = 0
  /\ inserts = 0
  /\ before = EmptyTables
  /\ walked = <<>>

\* job() is entered: Scraper(url) is built (main.py line 41).
InitJob ==
  /\ db \in EarlierStores
  /\ sess = db
  /\ files = {}
  /\ dirs = { Sanitize(r.name) : r \in db.product }
  /\ pc = "idle"
  /\ product = NoProduct
  /\ prod_obj = 0
  /\ card = NoCard
  /\ steps = 0
  /\ outcome = "none"
  /\ ingested = {}
  /\ batch = {}
  /\ driver \in BOOLEAN
  /\ max_workers \in 1..MaxWorkers
  /\ stubs = <<>>
  /\ entries = <<>>
  /\ task = <<>>
  /\ result = <<>>
  /\ detail = <<>>
  /\ driverUrl = ""
  /\ consumed = {}
  /\ cards = <<>>
  /\ idx = 0
  /\ hpc = "idle"
  /\ jpc = "start"
  /\ buttons = <<>>
  /\ bidx = 0
  /\ data = <<>>
  /\ jexc = ""
  /\ printed = ""
  /\ ret = "pending"
  /\ pageFetches = 0
  /\ inserts = 0
  /\ before = db
  /\ walked = <<>>

\* An exception leaves job().
Abort(exc) ==
  /\ jpc' = "aborted"
  /\ jexc' = exc

\* What a failing fetch raises: requests raises RequestException (HTTPError
\* included), the Selenium driver WebDriverException.
FetchError == IF driver THEN "WebDriverException" ELSE "RequestException"

\* scr.fetch() and the button collection of parse (main.py 42, scraper.py
\* 72-79 and 236-254).
FetchRoot ==
  /\ jpc = "start"
  /\ \/ /\ buttons' \in RootPages
        /\ jpc' = "walk"
        /\ jexc' = jexc
     \/ /\ Abort(FetchError)
        /\ buttons' = buttons
  /\ UNCHANGED <<bidx, data, printed, ret, pageFetches, inserts, before, walked>>
  /\ UNCHANGED <<dbvars, hvars, pvars, rvars, tvars, cvars>>

\* One turn of the loop of parse up to the harvest (lines 255-270): the
\* product page is fetched and parse_product_page collects its entries; a
\* RequestException makes the product's card list empty, anything else
\* leaves parse and job().
FetchPage ==
  /\ jpc = "walk"
  /\ bidx < Len(buttons)
  /\ pageFetches' = pageFetches + 1
  /\ \/ /\ stubs' \in JobPages
        /\ entries' = Entries(stubs')
        /\ task' = [i \in 1..Len(entries') |-> "queued"]
        /\ result' = [i \in 1..Len(entries') |-> NoResult]
        /\ detail' = [i \in 1..Len(entries') |-> <<>>]
        /\ driverUrl' = IF driver THEN buttons[bidx + 1].url ELSE driverUrl
        /\ consumed' = {}
        /\ cards' = <<>>
        /\ idx' = 0
        /\ hpc' = "collect"
        /\ jpc' = "harvest"
        /\ UNCHANGED <<bidx, data, jexc>>
     \/ /\ ~driver
        /\ data' = Append(data, [name |-> buttons[bidx + 1].name,
                                 url |-> buttons[bidx + 1].url, cards |-> <<>>])
        /\ bidx' = bidx + 1
        /\ UNCHANGED <<jpc, jexc>>
        /\ UNCHANGED <<stubs, entries, task, result, detail, driverUrl, consumed,
                       cards, idx, hpc>>
     \/ /\ driver
        /\ Abort("WebDriverException")
        /\ UNCHANGED <<bidx, data>>
        /\ UNCHANGED <<stubs, entries, task, result, detail, driverUrl, consumed,
                       cards, idx, hpc>>
  /\ UNCHANGED <<driver, max_workers, buttons, printed, ret, inserts, before, walked>>
  /\ UNCHANGED <<dbvars, pvars, rvars, tvars, cvars>>

\* The entries whose detail fetch failed: the worker returned None without a
\* page, or the driver raised.
FetchFailed ==
  { i \in 1..Len(entries) : task[i] = "done" /\
      \/ result[i] = [kind |-> "raise", exc |-> "WebDriverException"]
      \/ result[i] = [kind |-> "None", fetched |-> FALSE] }

\* The entries of the running harvest whose detail page was fetched and holds
\* a catalog number: the records a run parses successfully.
ParsedStubs ==
  { i \in 1..Len(entries) :
      detail[i] # <<>> /\ CardValues(detail[i][1], "RequestException", Today).number # "" }

\* What the harvest that has just ended leaves in the history.
Walked ==
  [stubs |-> stubs, failed |-> Cardinality(FetchFailed),
   parsed |-> Cardinality(ParsedStubs)]

\* parse_product_page returned: the product is appended (lines 268 and 271).
HarvestReturned ==
  /\ jpc = "harvest"
  /\ hpc = "returned"
  /\ data' = Append(data, [name |-> buttons[bidx + 1].name,
                           url |-> buttons[bidx + 1].url, cards |-> cards])
  /\ bidx' = bidx + 1
  /\ jpc' = "walk"
  /\ stubs' = <<>>
  /\ entries' = <<>>
  /\ task' = <<>>
  /\ result' = <<>>
  /\ detail' = <<>>
  /\ consumed' = {}
  /\ cards' = <<>>
  /\ idx' = 0
  /\ hpc' = "idle"
  /\ UNCHANGED <<driver, max_workers, driverUrl>>
  /\ walked' = Append(walked, Walked)
  /\ UNCHANGED <<buttons, jexc, printed, ret, pageFetches, inserts, before>>
  /\ UNCHANGED <<dbvars, pvars, rvars, tvars, cvars>>

\* The exception f.result() raised in the harvest.
HarvestException ==
  result[CHOOSE i \in consumed : result[i].kind = "raise"].exc

\* parse_product_page raised: the worker had caught every RequestException,
\* so the except clause of line 269 does not apply and job() is left.
HarvestRaised ==
  /\ jpc = "harvest"
  /\ hpc = "raised"
  /\ Abort(HarvestException)
  /\ walked' = Append(walked, Walked)
  /\ UNCHANGED <<buttons, bidx, data, printed, ret, pageFetches, inserts, before>>
  /\ UNCHANGED <<dbvars, hvars, pvars, rvars, tvars, cvars>>

\* Mutant: the data collected so far is handed on while a harvest runs.
ParseYields == jpc \in {"walk", "harvest"} /\ bidx <= Len(buttons)

\* data = scr.parse(soup) has returned (main.py line 43): the loop of parse
\* over the buttons is over (scraper.py lines 255-272).
ParseReturned == jpc = "walk" /\ bidx = Len(buttons)

\* parse returned an empty list (main.py line 49).
JobNoData ==
  /\ ParseReturned
  /\ data = <<>>
  /\ printed' = "No data scraped"
  /\ ret' = "None"
  /\ jpc' = "done"
  /\ UNCHANGED <<buttons, bidx, data, jexc, pageFetches, inserts, before, walked>>
  /\ UNCHANGED <<dbvars, hvars, pvars, rvars, tvars, cvars>>

RECURSIVE CardCount(_)
CardCount(ps) ==
  IF ps = <<>> THEN 0 ELSE Len(Head(ps).cards) + CardCount(Tail(ps))

\* Mutant: the report counts the cards.
ReportCards(ps) == [inserted |-> CardCount(ps)]

\* print(f"[✓] {len(data)} records inserted.") (main.py line 47).
Report(ps) == [inserted |-> Len(ps)]

\* db.insert_products(data) and the report (main.py lines 45-47).
JobInsert ==
  /\ ParseReturned
  /\ data # <<>>
  /\ inserts' = inserts + 1
  /\ LET r == InsertProducts(db, files, dirs, data)
     IN /\ files' = r.fs
        /\ dirs' = r.ds
        /\ outcome' = IF r.err = "none" THEN "ok" ELSE r.err
        /\ IF r.err = "none"
             THEN /\ db' = r.s
                  /\ sess' = r.s
                  /\ printed' = Report(data)
                  /\ ret' = "None"
                  /\ jpc' = "done"
                  /\ jexc' = jexc
             ELSE /\ UNCHANGED <<db, sess, printed, ret>>
                  /\ Abort(r.err)
  /\ UNCHANGED <<pc, product, prod_obj, card, steps, ingested, batch>>
  /\ UNCHANGED <<buttons, bidx, data, pageFetches, before, walked>>
  /\ UNCHANGED <<hvars, pvars, rvars, tvars, cvars>>

\* db.insert_products(data) when session.commit() raises (line 175).
JobCommitFails ==
  /\ ParseReturned
  /\ data # <<>>
  /\ inserts' = inserts + 1
  /\ LET r == InsertProducts(db, files, dirs, data)
     IN /\ r.err = "none"
        /\ files' = r.fs
        /\ dirs' = r.ds
  /\ outcome' = "OperationalError"
  /\ Abort("OperationalError")
  /\ UNCHANGED <<db, sess, pc, product, prod_obj, card, steps, ingested, batch>>
  /\ UNCHANGED <<buttons, bidx, data, printed, ret, pageFetches, before, walked>>
  /\ UNCHANGED <<hvars, pvars, rvars, tvars, cvars>>

NextJob ==
  \/ FetchRoot
  \/ FetchPage
  \/ \E i \in 1..MaxStubs : Start(i)
  \/ \E i \in 1..MaxStubs : RequestsGet(i)
  \/ \E i \in 1..MaxStubs : DriverGet(i)
  \/ \E i \in 1..MaxStubs : PageSource(i)
  \/ \E i \in 1..MaxStubs : Collect(i)
  \/ Return
  \/ Raise
  \/ HarvestReturned
  \/ HarvestRaised
  \/ JobNoData
  \/ JobInsert
  \/ JobCommitFails

\* ---------------------------------------------------------------- parse_card_page
NoParse ==
  /\ html = <<>>
  /\ answer = NoResult
  /\ kwargs = NoCard

InitParse ==
  /\ html \in DetailPages
  /\ answer = NoResult
  /\ kwargs = NoCard

\* parse_card_page(html), the image GET answering resp.
ParseCard ==
  /\ answer = NoResult
  /\ html \in DetailPages
  /\ \E resp \in ImageResponses :
       /\ kwargs' = CardValues(html, resp, Today)
       /\ answer' = ParseCardPage(html, resp, Today)
  /\ html' = html
  /\ UNCHANGED <<dbvars, hvars, jvars, rvars, tvars, cvars>>

\* ---------------------------------------------------------------- fetch_dataframe
NoFrame == [read |-> FALSE, rows |-> <<>>]

NoRead == df = NoFrame

\* The query of lines 186-190: CardPrice joined with CardTable, ProductTable
\* and RarityTable on the foreign keys.
JoinRows(t) ==
  { j \in t.card_price \X t.card \X t.product \X t.rarity :
      /\ j[1].card_id = j[2].id
      /\ j[2].product_id = j[3].id
      /\ j[2].rarity_id = j[4].id }

\* Mutant: the rows come in the order of their ids.
OrderedById(q) ==
  \A a, b \in 1..Len(q) : a < b => q[a][1].id <= q[b][1].id

\* .order_by(CardPrice.scraped_at) (line 191).
OrderedByDate(q) ==
  \A a, b \in 1..Len(q) : a < b => q[a][1].scraped_at <= q[b][1].scraped_at

\* What .all() can answer: every row once, ordered; the order of rows of the
\* same date is up to the database.
QueryResults(t) ==
  LET J == JoinRows(t)
      n == Cardinality(J)
  IN { q \in [1..n -> J] :
         /\ \A a, b \in 1..n : a # b => q[a] # q[b]
         /\ OrderedByDate(q) }

\* One row of the DataFrame (lines 196-206).
FlatRow(j) ==
  [product |-> j[3].name, card |-> j[2].name, number |-> j[2].number,
   rarity |-> j[4].name, feature |-> j[2].feature, color |-> j[2].color,
   price |-> j[1].price, quantity |-> j[1].quantity,
   scraped_at |-> j[1].scraped_at]

\* fetch_dataframe (lines 177-210), in a session of its own: it reads the
\* committed tables.  A read while insert_products runs, or after it raised,
\* answers what a read just before that call answers, so reads are taken on
\* the new store and after the calls that returned.
FetchDataframe ==
  /\ ~df.read
  /\ pc = "idle"
  /\ outcome \in {"none", "ok"}
  /\ \E q \in QueryResults(db) :
       df' = [read |-> TRUE, rows |-> [k \in 1..Len(q) |-> FlatRow(q[k])]]
  /\ UNCHANGED <<dbvars, hvars, jvars, pvars, tvars, cvars>>

\* The caller is done with the DataFrame; nothing of it is kept.
DropFrame ==
  /\ df.read
  /\ df' = NoFrame
  /\ UNCHANGED <<dbvars, hvars, jvars, pvars, tvars, cvars>>

\* An insert_products step between two reads.
StoreStep ==
  /\ ~df.read
  /\ NextDB

NextRead ==
  \/ StoreStep
  \/ FetchDataframe
  \/ DropFrame

\* ---------------------------------------------------------------- parse_headers
\* Elements of one document.
MaxElems == 3

\* An element in document order: its tag, its classes, how deep it is nested,
\* and the text it holds before its first child.
HeaderTexts == { <<" ", "A", " ">>, <<"B">> }
Elements ==
  [tag : {"h2", "div"}, class : { {}, {"accordion-header"} }, depth : 0..2,
   text : HeaderTexts]

\* The documents: the first element is at depth 0, a child is one deeper than
\* its parent.
Documents ==
  { d \in SeqsUpTo(Elements, MaxElems) :
      /\ d # <<>> => d[1].depth = 0
      /\ \A k \in 2..Len(d) : d[k].depth <= d[k - 1].depth + 1 }

\* The elements of the subtree of element k: k and what follows it, up to the
\* next element that is not nested deeper.
Subtree(d, k) ==
  { m \in k..Len(d) : \A x \in (k + 1)..m : d[x].depth > d[k].depth }

\* h2.get_text(strip=True) (src/test.py line 46): the strings of the subtree,
\* each stripped, joined in document order.
RECURSIVE JoinStripped(_, _, _)
JoinStripped(d, k, last) ==
  IF k > last THEN <<>>
  ELSE Strip(d[k].text) \o JoinStripped(d, k + 1, last)

GetText(d, k) ==
  JoinStripped(d, k, CHOOSE m \in Subtree(d, k) : \A x \in Subtree(d, k) : x <= m)

\* Mutant: only the elements at the top of the document are selected.
SelectTopLevel(d, k) ==
  d[k].tag = "h2" /\ "accordion-header" \in d[k].class /\ d[k].depth = 0

\* soup.select("h2.accordion-header") (line 40): does element k match.
Selected(d, k) ==
  d[k].tag = "h2" /\ "accordion-header" \in d[k].class

\* parse_headers (lines 36-55) from element k on.
RECURSIVE ParseHeadersFrom(_, _)
ParseHeadersFrom(d, k) ==
  IF k > Len(d) THEN <<>>
  ELSE IF Selected(d, k) THEN <<GetText(d, k)>> \o ParseHeadersFrom(d, k + 1)
  ELSE ParseHeadersFrom(d, k + 1)

NoHeaders ==
  /\ doc = <<>>
  /\ headers = [returned |-> FALSE, list |-> <<>>]

InitHeaders ==
  /\ doc \in Documents
  /\ headers = [returned |-> FALSE, list |-> <<>>]

\* parse_headers(html).
ParseHeaders ==
  /\ ~headers.returned
  /\ headers' = [returned |-> TRUE, list |-> ParseHeadersFrom(doc, 1)]
  /\ doc' = doc
  /\ UNCHANGED <<dbvars, hvars, jvars, pvars, rvars, cvars>>

\* ---------------------------------------------------------------- concurrent calls
\* Two threads or processes call insert_products on the same SQLite file, each
\* with one product holding one card. A session reads the committed tables
\* until its first INSERT, which takes the write lock of the database for the
\* rest of the transaction; the unique constraints are checked by each INSERT
\* against what the writer then sees.
Callers == { 1, 2 }

ConcProducts == { [name |-> <<"O", "P">>, url |-> u] : u \in ProductUrls }
ConcCards == { c \in Cards : c.url = "/card/2" /\ c.price = 100 }

\* What earlier calls left: nothing, or one product with one card and its
\* price of day 1.
ConcStores ==
  { InsertProducts(EmptyTables, {}, {}, <<>>),
    InsertProducts(EmptyTables, {}, {},
      << [name |-> <<"O", "P">>, url |-> "/sell/a",
          cards |-> << CHOOSE c \in ConcCards :
                         c.name = <<"A", "/">> /\ c.scraped_at = 1 >>] >>) }

NoTxn == [pc |-> "idle"]

\* No concurrent call is running.
NoConc ==
  /\ txn = [t \in Callers |-> NoTxn]
  /\ lock = 0

\* insert_products([Product(p.name, p.url, [c])]) is entered (line 108).
StartTxn(p, c) ==
  [pc |-> "product", p |-> p, c |-> c, work |-> EmptyTables, prod_id |-> 0,
   card_id |-> 0, rar_id |-> 0, err |-> "none", newCard |-> FALSE,
   newPrice |-> FALSE]

InitConc ==
  /\ \E st \in ConcStores :
       /\ db = st.s
       /\ sess = st.s
       /\ files = st.fs
       /\ dirs = st.ds
  /\ pc = "idle"
  /\ product = NoProduct
  /\ prod_obj = 0
  /\ card = NoCard
  /\ steps = 0
  /\ outcome = "none"
  /\ ingested = {}
  /\ batch = {}
  /\ txn \in [Callers -> { StartTxn(p, c) : p \in ConcProducts, c \in ConcCards }]
  /\ lock = 0

\* The tables a query of caller t reads: its own transaction's once it has
\* written, the committed ones before.
View(t) == IF lock = t THEN txn[t].work ELSE db

\* An INSERT of caller t can take or already holds the write lock.
CanWrite(t) == lock \in { 0, t }

\* Mutant: the card table has no unique constraint.
NoConstraint(s, row) == TRUE

\* unique=True on product.name (line 40).
ProductNameFree(s, row) ==
  ~\E r \in s.product : ProductUniqueKey(r) = ProductUniqueKey(row)

\* unique=True on rarity.name (line 50).
RarityNameFree(s, row) == ~\E r \in s.rarity : r.name = row.name

\* uix_product_card_name (line 58).
CardKeyFree(s, row) == ~\E r \in s.card : CardKey(r) = CardKey(row)

\* uix_card_price_date (line 76).
PriceKeyFree(s, row) == ~\E r \in s.card_price : PriceKey(r) = PriceKey(row)

\* What the concurrent calls leave alone.
ConcFrame ==
  /\ UNCHANGED <<sess, pc, product, prod_obj, card, steps, outcome, ingested, batch>>
  /\ UNCHANGED <<hvars, jvars, pvars, rvars, tvars>>

\* The exception leaves the with block of caller t: its session rolls back and
\* gives the lock up.
Fail(t, e) ==
  /\ txn' = [txn EXCEPT ![t].pc = "failed", ![t].err = e]
  /\ lock' = IF lock = t THEN 0 ELSE lock
  /\ db' = db

\* The product query (lines 110-114) and, when the row is found, the mkdir
\* of line 122.
LookupProduct(t) ==
  /\ txn[t].pc = "product"
  /\ LET found == { r \in View(t).product :
                      ProductLookupKey(r) = <<txn[t].p.name, txn[t].p.url>> }
     IN IF found # {}
          THEN /\ txn' = [txn EXCEPT ![t].pc = "card",
                                     ![t].prod_id = (CHOOSE r \in found : TRUE).id]
               /\ dirs' = dirs \cup { Sanitize(txn[t].p.name) }
          ELSE /\ txn' = [txn EXCEPT ![t].pc = "addProduct"]
               /\ dirs' = dirs
  /\ UNCHANGED <<db, files, lock>>
  /\ ConcFrame

\* session.add(prod_obj); session.flush() (lines 116-118), then the mkdir.
AddProduct(t) ==
  /\ txn[t].pc = "addProduct"
  /\ CanWrite(t)
  /\ LET s == View(t)
         row == [id |-> NextId(s.product), name |-> txn[t].p.name,
                 url |-> txn[t].p.url]
     IN IF ProductNameFree(s, row)
          THEN /\ txn' = [txn EXCEPT ![t].pc = "card", ![t].prod_id = row.id,
                                     ![t].work = [s EXCEPT !.product = @ \cup {row}]]
               /\ lock' = t
               /\ db' = db
               /\ dirs' = dirs \cup { Sanitize(txn[t].p.name) }
          ELSE /\ Fail(t, "IntegrityError")
               /\ dirs' = dirs
  /\ files' = files
  /\ ConcFrame

\* The card query (lines 126-130).
LookupCard(t) ==
  /\ txn[t].pc = "card"
  /\ LET found == { r \in View(t).card :
                      r.product_id = txn[t].prod_id /\ r.name = txn[t].c.name }
     IN IF found # {}
          THEN txn' = [txn EXCEPT ![t].pc = "price",
                                  ![t].card_id = (CHOOSE r \in found : TRUE).id]
          ELSE txn' = [txn EXCEPT ![t].pc = "rarity", ![t].newCard = TRUE]
  /\ UNCHANGED <<db, files, dirs, lock>>
  /\ ConcFrame

\* The rarity query (lines 132-136).
LookupRarity(t) ==
  /\ txn[t].pc = "rarity"
  /\ LET found == { r \in View(t).rarity : r.name = txn[t].c.rarity }
     IN IF found # {}
          THEN txn' = [txn EXCEPT ![t].pc = "addCard",
                                  ![t].rar_id = (CHOOSE r \in found : TRUE).id]
          ELSE txn' = [txn EXCEPT ![t].pc = "addRarity"]
  /\ UNCHANGED <<db, files, dirs, lock>>
  /\ ConcFrame

\* session.add(rarity_obj); session.flush() (lines 138-140).
AddRarity(t) ==
  /\ txn[t].pc = "addRarity"
  /\ CanWrite(t)
  /\ LET s == View(t)
         row == [id |-> NextId(s.rarity), name |-> txn[t].c.rarity]
     IN IF RarityNameFree(s, row)
          THEN /\ txn' = [txn EXCEPT ![t].pc = "addCard", ![t].rar_id = row.id,
                                     ![t].work = [s EXCEPT !.rarity = @ \cup {row}]]
               /\ lock' = t
               /\ db' = db
          ELSE Fail(t, "IntegrityError")
  /\ UNCHANGED <<files, dirs>>
  /\ ConcFrame

\* The picture write, then session.add(card_obj); session.flush() (lines
\* 141-157).
AddCard(t) ==
  /\ txn[t].pc = "addCard"
  /\ CanWrite(t)
  /\ files' = WritePicture(files, Sanitize(txn[t].p.name), txn[t].c)
  /\ LET s == View(t)
         c == txn[t].c
         row == [id |-> NextId(s.card), product_id |-> txn[t].prod_id,
                 name |-> c.name, rarity_id |-> txn[t].rar_id, url |-> c.url,
                 number |-> c.number, feature |-> c.feature, color |-> c.color]
     IN IF CardKeyFree(s, row)
          THEN /\ txn' = [txn EXCEPT ![t].pc = "price", ![t].card_id = row.id,
                                     ![t].work = [s EXCEPT !.card = @ \cup {row}]]
               /\ lock' = t
               /\ db' = db
          ELSE Fail(t, "IntegrityError")
  /\ dirs' = dirs
  /\ ConcFrame

\* The price query (lines 161-165); a price not found is added to the
\* session, to be flushed by the commit (lines 166-174).
LookupPrice(t) ==
  /\ txn[t].pc = "price"
  /\ LET existing_price ==
           { r \in View(t).card_price :
               r.card_id = txn[t].card_id /\ r.scraped_at = txn[t].c.scraped_at }
     IN txn' = [txn EXCEPT ![t].pc = "commit",
                           ![t].newPrice = (existing_price = {})]
  /\ UNCHANGED <<db, files, dirs, lock>>
  /\ ConcFrame

\* session.commit() (line 175): the pending price row is flushed, then the
\* transaction is committed and the lock given up.
CommitTxn(t) ==
  /\ txn[t].pc = "commit"
  /\ txn[t].newPrice => CanWrite(t)
  /\ LET s == View(t)
         c == txn[t].c
         row == [id |-> NextId(s.card_price), card_id |-> txn[t].card_id,
                 price |-> c.price, quantity |-> c.quantity,
                 scraped_at |-> c.scraped_at]
     IN IF ~txn[t].newPrice
          THEN /\ db' = s
               /\ txn' = [txn EXCEPT ![t].pc = "done"]
               /\ lock' = IF lock = t THEN 0 ELSE lock
          ELSE IF PriceKeyFree(s, row)
                 THEN /\ db' = [s EXCEPT !.card_price = @ \cup {row}]
                      /\ txn' = [txn EXCEPT ![t].pc = "done"]
                      /\ lock' = 0
                 ELSE Fail(t, "IntegrityError")
  /\ UNCHANGED <<files, dirs>>
  /\ ConcFrame

\* An INSERT of caller t finds the database locked by the other caller until
\* the busy timeout: OperationalError leaves the call.
Busy(t) ==
  /\ \/ txn[t].pc \in { "addProduct", "addRarity", "addCard" }
     \/ txn[t].pc = "commit" /\ txn[t].newPrice
  /\ ~CanWrite(t)
  /\ files' = IF txn[t].pc = "addCard"
                THEN WritePicture(files, Sanitize(txn[t].p.name), txn[t].c)
                ELSE files
  /\ Fail(t, "OperationalError")
  /\ dirs' = dirs
  /\ ConcFrame

NextConc ==
  \/ \E t \in Callers : LookupProduct(t)
  \/ \E t \in Callers : AddProduct(t)
  \/ \E t \in Callers : LookupCard(t)
  \/ \E t \in Callers : LookupRarity(t)
  \/ \E t \in Callers : AddRarity(t)
  \/ \E t \in Callers : AddCard(t)
  \/ \E t \in Callers : LookupPrice(t)
  \/ \E t \in Callers : CommitTxn(t)
  \/ \E t \in Callers : Busy(t)

\* ---------------------------------------------------------------- specifications
\* No parse_product_page call is running.
NoHarvest ==
  /\ driver = FALSE
  /\ max_workers = 1
  /\ stubs = <<>>
  /\ entries = <<>>
  /\ task = <<>>
  /\ result = <<>>
  /\ detail = <<>>
  /\ driverUrl = ""
  /\ consumed = {}
  /\ cards = <<>>
  /\ idx = 0
  /\ hpc = "idle"

Init == InitDB /\ NoHarvest /\ NoJob /\ NoParse /\ NoRead /\ NoHeaders /\ NoConc

Next == NextDB

\* insert_products called any number of times on one database.
Spec == Init /\ [][Next]_vars

\* One parse_product_page call, the database left alone.
InitH == InitDB /\ InitHarvest /\ NoJob /\ NoParse /\ NoRead /\ NoHeaders /\ NoConc

SpecHarvest == InitH /\ [][NextHarvest]_vars

\* One job() call on the store an earlier run left.
InitJ == InitJob /\ NoParse /\ NoRead /\ NoHeaders /\ NoConc

SpecJob == InitJ /\ [][NextJob]_vars

\* One parse_card_page call.
InitP == InitDB /\ NoHarvest /\ NoJob /\ InitParse /\ NoRead /\ NoHeaders /\ NoConc

SpecParse == InitP /\ [][ParseCard]_vars

\* One parse_headers call.
InitHd == InitDB /\ NoHarvest /\ NoJob /\ NoParse /\ NoRead /\ InitHeaders /\ NoConc

SpecHeaders == InitHd /\ [][ParseHeaders]_vars

\* Two insert_products calls at once on the store earlier calls left.
InitC == InitConc /\ NoHarvest /\ NoJob /\ NoParse /\ NoRead /\ NoHeaders

SpecConc == InitC /\ [][NextConc]_vars

\* insert_products calls with fetch_dataframe calls between their steps.
SpecRead == Init /\ [][NextRead]_vars

\* ---------------------------------------------------------------- claims
\* The card rows of table set t for the item (product name, url, card name).
ItemCards(t, pname, purl, cname) ==
  { c \in t.card : c.name = cname /\
      \E p \in t.product : p.id = c.product_id /\ p.name = pname /\ p.url = purl }

\* The price rows of table set t for that item.
ItemPrices(t, pname, purl, cname) ==
  { r \in t.card_price :
      \E c \in ItemCards(t, pname, purl, cname) : r.card_id = c.id }

\* The dates under which committed calls were handed that item.
ItemDates(pname, purl, cname) ==
  { k.date : k \in { j \in Committed :
      j.product = pname /\ j.url = purl /\ j.card = cname } }

\* The price rows of table set t for the card of the current loop position.
CurrentPrices(t) ==
  { r \in t.card_price : r.scraped_at = card.scraped_at /\
      \E c \in t.card : c.id = r.card_id /\ c.product_id = prod_obj /\ c.name = card.name }

\* C1: once every call has returned, an item holds exactly one price row per
\* distinct date it was ingested with: handing the same item and date to two
\* calls leaves one row, handing it two dates leaves two.
C1_OneRowPerIngestedDate ==
  pc = "idle" =>
    \A k \in Committed :
      Cardinality(ItemPrices(db, k.product, k.url, k.card))
        = Cardinality(ItemDates(k.product, k.url, k.card))

\* C1 witness: the last call committed an item and date that an earlier
\* committed call had already ingested.
C1_Witness ==
  /\ pc = "idle"
  /\ outcome = "ok"
  /\ \E k \in batch \cap ingested :
       Cardinality(ItemPrices(db, k.product, k.url, k.card)) = 1

\* C2: the committed tables and the session never hold two price rows for
\* the same card and date.
C2_OnePricePerCardAndDate ==
  \A t \in {db, sess} :
    \A r, q \in t.card_price :
      (r.card_id = q.card_id /\ r.scraped_at = q.scraped_at) => r = q

\* C2 witness: a committed batch held the same item and date twice (the last
\* card's date was new to the store, yet the row stored carries another price).
C2_Witness ==
  /\ pc = "idle"
  /\ outcome = "ok"
  /\ card # NoCard
  /\ HistoryKey(product, card) \notin ingested
  /\ \E r \in CurrentPrices(db) : r.price # card.price

\* Every price row of t1 is in t2 as it was, alone for its card and date.
C3_PriceKept(t1, t2) ==
  \A r \in t1.card_price :
    /\ r \in t2.card_price
    /\ \A q \in t2.card_price :
         (q.card_id = r.card_id /\ q.scraped_at = r.scraped_at) => q = r

\* C3: a stored price row is never changed or removed, and no second row for
\* its card and date appears beside it, whatever price or quantity a later
\* call carries for that item and date.
C3_NoOverwrite ==
  [][ /\ C3_PriceKept(db, db')
      /\ (pc = "loop" /\ pc' = "loop") => C3_PriceKept(sess, sess') ]_vars

\* C3 witness: a committed call carried, for an item and date ingested
\* earlier, a price other than the stored one.
C3_Witness ==
  /\ pc = "idle"
  /\ outcome = "ok"
  /\ card # NoCard
  /\ HistoryKey(product, card) \in ingested
  /\ \E r \in CurrentPrices(db) : r.price # card.price /\ r.quantity # card.quantity

\* C4: after every card step the call is still running and the session holds
\* exactly one card row for the card just handled, also when the same new
\* card comes twice in one call.
C4_OneItemRow ==
  (card # NoCard /\ outcome \in {"none", "IntegrityError"}) =>
    /\ pc = "loop"
    /\ Cardinality({ r \in sess.card :
                       r.product_id = prod_obj /\ r.name = card.name }) = 1

\* C4 witness: the card just handled found a row that an earlier card of the
\* same call created (the row is not committed and carries another url).
C4_Witness ==
  /\ pc = "loop"
  /\ card # NoCard
  /\ \E r \in sess.card \ db.card :
       r.product_id = prod_obj /\ r.name = card.name /\ r.url # card.url

\* Every card row and rarity row of t1 is in t2 as it was.
C5_RowsKept(t1, t2) ==
  /\ \A r \in t1.card : r \in t2.card
  /\ \A r \in t1.rarity : r \in t2.rarity

\* C5: a card row, and the rarity row it refers to, stay as they were stored
\* when the item is ingested again with other static fields.
C5_StaticFieldsKept ==
  [][ /\ C5_RowsKept(db, db')
      /\ (pc = "loop" /\ pc' = "loop") => C5_RowsKept(sess, sess') ]_vars

\* C5 witness: a committed call carried, for an item stored earlier, another
\* rarity, url, number, feature and color, and the row holds the old ones.
C5_Witness ==
  /\ pc = "idle"
  /\ outcome = "ok"
  /\ card # NoCard
  /\ \E k \in ingested : k.product = product.name /\ k.url = product.url
                          /\ k.card = card.name
  /\ \E r \in db.card :
       /\ r.product_id = prod_obj /\ r.name = card.name
       /\ r.url # card.url /\ r.number # card.number
       /\ r.feature # card.feature /\ r.color # card.color
       /\ \E y \in db.rarity : y.id = r.rarity_id /\ y.name # card.rarity

\* C6: the committed tables change only in the step that commits a call; a
\* call that raises leaves them as they were and drops the session's rows.
C6_AllOrNothing ==
  [][ /\ db' # db => (pc = "loop" /\ pc' = "idle" /\ outcome' = "ok")
      /\ (pc' = "idle" /\ outcome' # "ok") => (db' = db /\ sess' = db) ]_vars

\* C6 witness: a call raised after it had created a product row and handled a
\* card, and the tables hold no row of that product.
C6_Witness ==
  /\ pc = "idle"
  /\ outcome \in {"IntegrityError", "OSError", "OperationalError"}
  /\ card # NoCard
  /\ \A r \in db.product : r.name # product.name

\* C7 (as claimed): no insert_products call ends in a uniqueness error.
C7_NoUniquenessError == outcome # "IntegrityError"

\* C8 (as claimed): after a product step the tables hold exactly one product
\* row for the (name, url) pair handed in, whatever other rows share its name.
C8_CategoryIdentity ==
  (product # NoProduct /\ card = NoCard /\ outcome \in {"none", "IntegrityError"}) =>
    Cardinality({ r \in sess.product :
                    r.name = product.name /\ r.url = product.url }) = 1

\* C9 (as claimed): parse_product_page ends by returning, and the list holds
\* one record for every entry whose detail fetch did not fail (N - K records).
C9_ReturnsAllButFailed ==
  hpc \in {"returned", "raised"} =>
    /\ hpc = "returned"
    /\ Len(cards) = Len(entries) - Cardinality(FetchFailed)

\* The entries whose processing failed: no page, a parse that raised, or a
\* record without catalog number.
Failed ==
  { i \in 1..Len(entries) : task[i] = "done" /\ result[i].kind \in {"raise", "None"} }

\* C10 (as claimed): when the processing of some entry failed,
\* parse_product_page still returns, and the list holds the card of every
\* entry that yielded one.
C10_NeverAborts ==
  (hpc \in {"returned", "raised"} /\ Failed # {}) =>
    /\ hpc = "returned"
    /\ \A i \in 1..Len(entries) :
         result[i].kind = "card" => \E k \in 1..Len(cards) : cards[k] = result[i].card

\* The price rows of the run's date for card name cname of the product p.
TodaysPrices(p, cname) ==
  { r \in ItemPrices(db, p.name, p.url, cname) : r.scraped_at = Today }

\* C11 (as claimed): once job() has ended (other than by a fetch or a commit
\* that failed), every record the run parsed has exactly one price row of the
\* run's date carrying its price and quantity: the records of the products
\* handed to insert_products, and the records parsed in the harvest that was
\* running last.
C11_ParsedThenIngested ==
  (jpc \in {"done", "aborted"} /\ jexc \notin {"WebDriverException", "OperationalError"}) =>
    /\ \A k \in 1..Len(data) : \A j \in 1..Len(data[k].cards) :
         /\ Cardinality(TodaysPrices(data[k], data[k].cards[j].name)) = 1
         /\ \A r \in TodaysPrices(data[k], data[k].cards[j].name) :
              /\ r.price = data[k].cards[j].price
              /\ r.quantity = data[k].cards[j].quantity
    /\ \A i \in ParsedStubs :
         LET v == CardValues(detail[i][1], "RequestException", Today)
             rows == TodaysPrices(buttons[bidx + 1], entries[i].name)
         IN /\ Cardinality(rows) = 1
            /\ \A r \in rows : r.price = v.price /\ r.quantity = v.quantity

\* C12 (as claimed): a product-page fetch of Scraper.parse that fails (the
\* step makes a fetch and starts no harvest) leaves the walk running, with
\* the product appended with an empty card list and the loop moved on.
C12_FailedCategoryKept ==
  [][ (jpc = "walk" /\ pageFetches' = pageFetches + 1 /\ jpc' # "harvest") =>
        /\ jpc' = "walk"
        /\ bidx' = bidx + 1
        /\ data' = Append(data, [name |-> buttons[bidx + 1].name,
                                 url |-> buttons[bidx + 1].url,
                                 cards |-> <<>>]) ]_vars

\* C13 (as claimed): the only step that makes job() end by an exception is
\* the root fetch; it comes before any product-page fetch and any
\* insert_products call and leaves the tables and the picture files alone.
C13_OnlyRootFetchFatal ==
  [][ jpc' = "aborted" =>
        /\ jpc = "start"
        /\ pageFetches' = 0
        /\ inserts' = 0
        /\ db' = db
        /\ files' = files ]_vars

\* The rarity tags the claim names.
ExcludedTags == { <<"C">>, <<"U", "C">> }

\* C14: no card link whose rarity is "C" or "UC" becomes an entry, so no task
\* is submitted and no page fetched for it, and the list returned holds no
\* card of such a rarity: the entries are exactly as many as the other links
\* that are not skipped.
C14_ExcludedNeverSubmitted ==
  /\ \A i \in 1..Len(entries) : entries[i].rarity \notin ExcludedTags
  /\ \A j \in 1..Len(cards) : cards[j].rarity \notin ExcludedTags
  /\ Len(task) = Len(entries)
  /\ Len(entries) <=
       Cardinality({ k \in 1..Len(stubs) : stubs[k].rarity \notin ExcludedTags })

\* C14 witness: the page held a "C" or "UC" link beside another one, and the
\* harvest has ended with every submitted task run.
C14_Witness ==
  /\ hpc \in {"returned", "raised"}
  /\ \E k \in 1..Len(stubs) : stubs[k].rarity \in ExcludedTags
  /\ Len(entries) >= 1
  /\ \A i \in 1..Len(entries) : task[i] = "done"

\* The entries whose detail page was fetched and holds no catalog number.
NumberlessStubs ==
  { i \in 1..Len(entries) :
      detail[i] # <<>> /\ CardValues(detail[i][1], "RequestException", Today).number = "" }

\* C15 (as claimed): the worker answers None for a page without catalog
\* number (the record is dropped and the harvest goes on), and no card row of
\* the tables or the session has an empty number.
C15_EmptyNumberDiscarded ==
  /\ \A i \in NumberlessStubs :
       task[i] = "done" => result[i] = [kind |-> "None", fetched |-> TRUE]
  /\ \A t \in {db, sess} : \A r \in t.card : r.number # ""

\* C16: a picture file, once there, stays as it is: no step removes it,
\* changes its bytes or puts a second file at its path, whatever image a later
\* card carries for that path.
C16_AssetWrittenOnce ==
  [][ \A f \in files :
        /\ f \in files'
        /\ \A g \in files' : (g[1] = f[1] /\ g[2] = f[2]) => g = f ]_vars

\* C16 witness: the call has just created the row of a card carrying an
\* image, and the file at the card's path holds other bytes (it was there
\* before, so the write was skipped).
C16_Witness ==
  /\ pc = "loop"
  /\ card # NoCard
  /\ card.image # EmptyBytes
  /\ \E r \in sess.card \ db.card :
       r.product_id = prod_obj /\ r.name = card.name /\ r.url = card.url
  /\ \E f \in files :
       /\ f[1] = Sanitize(product.name) /\ f[2] = Sanitize(card.name)
       /\ f[3] # card.image /\ f[3] # EmptyBytes

ScenarioPage ==
  << [url |-> "/card/3", name |-> <<"N">>, rarity |-> <<"C">>],
     [url |-> "/card/1", name |-> <<"L">>, rarity |-> <<"S", "R">>],
     [url |-> "/card/2", name |-> <<"Z">>, rarity |-> <<"S", "R">>] >>

\* C18 (as claimed): a job() that started on an empty store, found two
\* products on the root page, and on the first product's page three card
\* links (one "C", two "SR") of which one detail fetch failed and the other
\* page held a catalog number, returns with 2 product rows, 1 card row and 1
\* price row stored, the first product carrying the one card harvested.
C18_EndToEnd ==
  ( /\ jpc \in {"done", "aborted"}
    /\ jexc # "OperationalError"
    /\ before = EmptyTables
    /\ Len(buttons) = 2
    /\ buttons[1].name # buttons[2].name
    /\ Len(walked) >= 1
    /\ walked[1] = [stubs |-> ScenarioPage, failed |-> 1, parsed |-> 1] ) =>
      /\ jpc = "done"
      /\ Cardinality(db.product) = 2
      /\ Cardinality(db.card) = 1
      /\ Cardinality(db.card_price) = 1
      /\ Len(data[1].cards) = 1

\* C19: the DataFrame fetch_dataframe hands out holds, for every price row of
\* the committed tables as they are at the call, exactly one row, carrying the
\* names of the product and of the rarity of its card, the card's name,
\* number, feature and color, and the price, quantity and date of the price
\* row; it holds nothing else, and its dates never decrease.
C19_OneRowPerObservation ==
  df.read =>
    /\ Len(df.rows) = Cardinality(db.card_price)
    /\ \A r \in db.card_price :
         \E c \in db.card, p \in db.product, y \in db.rarity :
           /\ c.id = r.card_id
           /\ p.id = c.product_id
           /\ y.id = c.rarity_id
           /\ Cardinality({ k \in 1..Len(df.rows) :
                df.rows[k] = [product |-> p.name, card |-> c.name,
                              number |-> c.number, rarity |-> y.name,
                              feature |-> c.feature, color |-> c.color,
                              price |-> r.price, quantity |-> r.quantity,
                              scraped_at |-> r.scraped_at] }) = 1
    /\ \A a, b \in 1..Len(df.rows) :
         a < b => df.rows[a].scraped_at <= df.rows[b].scraped_at

\* C19 witness: a DataFrame read from tables in which a price row of a later
\* date was stored before one of an earlier date.
C19_Witness ==
  /\ df.read
  /\ Len(df.rows) >= 2
  /\ \E r, q \in db.card_price : r.id < q.id /\ r.scraped_at > q.scraped_at

\* The sub-elements of the markup that are there, parents included.
HasImage == html.container /\ html.img # <<>>
HasNumber == html.container /\ html.info /\ html.flex >= 1 /\ html.number # <<>>
HasPrice == html.container /\ html.info /\ html.flex >= 2 /\ html.price # <<>>
HasLabel == html.container /\ html.info /\ html.flex >= 2 /\ html.label # <<>>

\* C20 (as claimed): whatever sub-elements the markup lacks, parse_card_page
\* returns a card; a field whose element is absent holds its default (empty
\* string, 0, empty bytes) and a field whose element is there holds the value
\* parsed from it.
C20_DefaultsForMissing ==
  answer # NoResult =>
    /\ answer.kind = "card"
    /\ ~HasImage => answer.card.image = EmptyBytes
    /\ answer.card.number = IF HasNumber THEN html.number[1] ELSE ""
    /\ answer.card.price = IF HasPrice THEN ParsePrice(html.price[1]) ELSE 0
    /\ ~HasLabel => answer.card.quantity = 0
    /\ answer.card.feature =
         IF html.container /\ html.info /\ Len(html.tds) >= 1 THEN html.tds[1] ELSE ""
    /\ answer.card.color =
         IF html.container /\ html.info /\ Len(html.tds) >= 2 THEN html.tds[2] ELSE ""

\* C21 (as claimed): the quantity parse_card_page computes is never negative.
C21_QuantityNonNegative ==
  answer # NoResult => kwargs.quantity >= 0

\* C22: parse_headers returns one text for every h2 element of class
\* accordion-header, at whatever depth, in document order, and none for any
\* other element; each text is the element's text without blanks around it.
C22_HeadersInOrder ==
  headers.returned =>
    LET M == { k \in 1..Len(doc) :
                 doc[k].tag = "h2" /\ "accordion-header" \in doc[k].class }
    IN /\ Len(headers.list) = Cardinality(M)
       /\ \A k \in M :
            headers.list[Cardinality({ m \in M : m <= k })] = GetText(doc, k)
       /\ \A j \in 1..Len(headers.list) :
            LET w == headers.list[j]
            IN w # <<>> /\ w[1] \notin Whitespace /\ w[Len(w)] \notin Whitespace

\* C22 witness: the document held an h2 without the class, and two h2 of the
\* class, one of them nested and one with blanks around its text.
C22_Witness ==
  /\ headers.returned
  /\ Len(headers.list) = 2
  /\ \E k \in 1..Len(doc) : doc[k].tag = "h2" /\ doc[k].class = {}
  /\ \E k \in 1..Len(doc) :
       doc[k].tag = "h2" /\ doc[k].class # {} /\ doc[k].depth > 0
  /\ \E k \in 1..Len(doc) :
       doc[k].tag = "h2" /\ doc[k].class # {} /\ doc[k].text = <<" ", "A", " ">>

\* C23 (as claimed): the page a worker parses is the page loaded from its own
\* entry's url, under every interleaving of the workers.
C23_OwnPageParsed ==
  \A i \in 1..Len(entries) :
    detail[i] # <<>> => detail[i][2] = entries[i].url

\* C24: never more detail fetches are in flight than max_workers, and none
\* is in flight while job() is not inside a harvest (the root fetch and the
\* product-page fetches are made by the one thread running parse).
C24_BoundedConcurrency ==
  /\ Cardinality(Running) <= max_workers
  /\ jpc # "harvest" => Running = {}

\* C24 witness: with max_workers = 1 a task is being fetched while another
\* waits in the queue.
C24_Witness ==
  /\ jpc = "harvest"
  /\ max_workers = 1
  /\ Cardinality(Running) = 1
  /\ Queued # {}

\* C25: the store and the picture files are written only by the step of
\* job() that follows the return of parse, when no worker task is queued or
\* running; until then the store is the one the run started with.
C25_NoWriteWhileHarvesting ==
  /\ [](jpc \in {"start", "harvest"} => db = before /\ files = {} /\ inserts = 0)
  /\ [][(db' # db \/ files' # files \/ inserts' # inserts) =>
          Running = {} /\ Queued = {} /\ jpc = "walk" /\ bidx = Len(buttons)]_vars

\* C25 witness: a harvest whose worker tasks ran has ended, and afterwards
\* the run has written its products to the store.
C25_Witness ==
  /\ jpc = "done"
  /\ inserts = 1
  /\ db # before
  /\ \E k \in 1..Len(walked) : walked[k].failed > 0

\* C26: a harvest is left only when every one of its worker tasks is done,
\* and a product page is fetched only when no worker task of an earlier
\* product is queued or running.
C26_OneCategoryAtATime ==
  /\ [][jpc = "harvest" /\ jpc' # "harvest" =>
          \A i \in 1..Len(entries) : task[i] = "done"]_vars
  /\ [][pageFetches' # pageFetches => Running = {} /\ Queued = {}]_vars

\* C26 witness: the second product is being harvested, a worker of it is
\* fetching, and the first product's harvest had worker tasks too.
C26_Witness ==
  /\ jpc = "harvest"
  /\ bidx = 1
  /\ Running # {}
  /\ Len(walked) = 1
  /\ Entries(walked[1].stubs) # <<>>

\* C27 (as claimed): between calls of insert_products every picture file
\* belongs to a committed card row: a call that failed before its commit has
\* left none of the files it wrote.
C27_AssetsAllOrNothing ==
  pc = "idle" =>
    \A f \in files :
      \E p \in db.product, c \in db.card :
        /\ c.product_id = p.id
        /\ Sanitize(p.name) = f[1]
        /\ Sanitize(c.name) = f[2]

RemovedLabels == { <<"C">>, <<"U">>, <<"U", "C">>, <<"u", "c">> }

C29_WalkReachesDone ==
  /\ pageFetches <= Len(buttons)
  /\ Len(walked) <= pageFetches
  /\ (jpc = "aborted" /\ inserts = 0) => pageFetches = 0
  /\ ParseReturned =>
       /\ pageFetches = Len(buttons)
       /\ Len(data) = Len(buttons)
       /\ \A k \in 1..Len(data) :
            data[k].name = buttons[k].name /\ data[k].url = buttons[k].url

\* C30 (as claimed): for a page with a price element parse_card_page returns
\* a card whose price is the number written by the digits of the price text,
\* in their order, 0 when the text has no digit, and never negative: "¥1,200"
\* gives 1200.
C30_PriceFromDigits ==
  (answer # NoResult /\ HasPrice) =>
    /\ answer.kind = "card"
    /\ answer.card.price = DecimalValue(KeepDigits(html.price[1]))
    /\ answer.card.price >= 0
    /\ html.price[1] = <<"¥", "1", ",", "2", "0", "0">> => answer.card.price = 1200

\* C31: neither the committed rarity table nor the one of the open session
\* ever holds two rows of the same name, also when several new cards of one
\* call carry a rarity the store did not hold.
C31_RarityNamesDistinct ==
  \A t \in {db, sess} :
    \A r1, r2 \in t.rarity : r1.name = r2.name => r1 = r2

\* C31 witness: the running call has created a rarity row and two card rows
\* that refer to it.
C31_Witness ==
  /\ pc = "loop"
  /\ \E r \in sess.rarity \ db.rarity :
       Cardinality({ c \in sess.card \ db.card : c.rarity_id = r.id }) >= 2

\* C32: in the committed tables every card row refers to a product row and
\* a rarity row that are there, and every price row to a card row that is
\* there; no step removes a committed row of any table.
C32_ReferentialIntegrity ==
  /\ [](/\ \A c \in db.card :
             /\ \E p \in db.product : p.id = c.product_id
             /\ \E r \in db.rarity : r.id = c.rarity_id
        /\ \A q \in db.card_price : \E c \in db.card : c.id = q.card_id)
  /\ [][/\ db.product \subseteq db'.product
        /\ db.rarity \subseteq db'.rarity
        /\ db.card \subseteq db'.card
        /\ db.card_price \subseteq db'.card_price]_vars

\* C32 witness: a second call has committed card and price rows on top of
\* those of an earlier call.
C32_Witness ==
  /\ pc = "idle"
  /\ outcome = "ok"
  /\ ingested # {}
  /\ batch # {}
  /\ db.card # {}
  /\ Cardinality(db.card_price) >= 2

\* C33 (as claimed): the picture path of a card just created with an image
\* holds that image, whatever other cards were ingested: no card of another
\* product or name has left its picture at that path.
C33_DistinctKeysDistinctFiles ==
  (/\ pc = "loop"
   /\ card # NoCard
   /\ card.image # EmptyBytes
   /\ \E r \in sess.card \ db.card :
        r.product_id = prod_obj /\ r.name = card.name /\ r.url = card.url) =>
     <<Sanitize(product.name), Sanitize(card.name), card.image>> \in files

\* C35: a picture file appears only in a step that handles a card with an
\* image for which the session held no card row; a card whose row is there
\* gets no file, even if none is at its path.
C35_AssetOnlyOnCreate ==
  [][files' # files =>
       /\ card' # NoCard
       /\ card'.image # EmptyBytes
       /\ { r \in sess.card : r.product_id = prod_obj /\ r.name = card'.name } = {}]_vars

\* C35 witness: a card committed earlier without a picture has come again
\* with an image, and still no file is at its path.
C35_Witness ==
  /\ pc = "loop"
  /\ card # NoCard
  /\ card.image # EmptyBytes
  /\ \E r \in db.card : r.product_id = prod_obj /\ r.name = card.name
  /\ ~FileExists(files, Sanitize(product.name), Sanitize(card.name))

\* C34: with two calls running at once the committed tables never hold two
\* card rows of one (product, name) or two price rows of one (card, date);
\* two calls that both went to add the same new card, or the same new price,
\* never both succeed; and the step by which a call fails leaves the
\* committed tables as they were.
C34_ConcurrentCallsKeepKeys ==
  /\ [](/\ \A r1, r2 \in db.card : CardKey(r1) = CardKey(r2) => r1 = r2
        /\ \A q1, q2 \in db.card_price : PriceKey(q1) = PriceKey(q2) => q1 = q2
        /\ (txn[1].pc = "done" /\ txn[2].pc = "done") =>
             /\ ~(/\ txn[1].newCard /\ txn[2].newCard
                  /\ txn[1].prod_id = txn[2].prod_id
                  /\ txn[1].c.name = txn[2].c.name)
             /\ ~(/\ txn[1].newPrice /\ txn[2].newPrice
                  /\ txn[1].card_id = txn[2].card_id
                  /\ txn[1].c.scraped_at = txn[2].c.scraped_at))
  /\ [][\A t \in Callers :
          (txn[t].pc # "failed" /\ txn'[t].pc = "failed") => db' = db]_vars

\* C34 witness: both calls found no row of the same card and went to add it;
\* one has committed and the other has failed on the unique constraint.
C34_Witness ==
  /\ txn[1].pc = "done"
  /\ txn[2].pc = "failed"
  /\ txn[2].err = "IntegrityError"
  /\ txn[1].newCard /\ txn[2].newCard
  /\ txn[1].prod_id = txn[2].prod_id
  /\ txn[1].c.name = txn[2].c.name
  /\ Cardinality({ r \in db.card : r.product_id = txn[1].prod_id /\
                                     r.name = txn[1].c.name }) = 1

====
